---------------------------- MODULE Spec2Model ----------------------------
(***************************************************************************)
(* The 2D flocking simulation ("Flocking in 2D"): the flock `fishies`, its *)
(* construction in init()/newFish() and the per-frame update render() with *)
(* the three steering forces cohesion(), avoid() and align().               *)
(*                                                                         *)
(* Numbers.  The program computes with JavaScript doubles.  Here every     *)
(* number is a fixed-point integer counting hundredths (Scale = 100):      *)
(* 0.04 is 4, 1.5 is 150, 640 is 64000.  A product or quotient of two such *)
(* numbers is rounded to the nearest hundredth (half away from zero, so    *)
(* that arithmetic commutes with negation as it does for doubles), and a   *)
(* square root is rounded down.  Vectors carry x and y only: z is 0 in     *)
(* every vector the simulation builds and no operation makes it non-zero.  *)
(***************************************************************************)
EXTENDS Integers, Sequences, FiniteSets

VARIABLES fishies,      \* the flock: sequence of [position, velocity, acceleration]
          prevFishies,  \* the flock as it was when the last render() began
          forces,       \* per fish, what cohesion/avoid/align returned in the last render()
          ticks         \* number of frames rendered so far

vars == <<fishies, prevFishies, forces, ticks>>

---------------------------------------------------------------------------
(* Bounds of the model *)
MaxNumFish == 3       \* flock sizes 1..MaxNumFish are explored
MaxTicks == 80        \* frames per run

(* Fixed-point unit and the saturation of distanceTo *)
Scale == 100
DistCap == 30000

(* Program constants, in hundredths *)
fishSize == 700
boundaryWidth == 64000
boundaryHeight == 32000
cohesionRadius == 4000
cohesionStrength == 150
alignmentRadius == 4000
alignmentStrength == 100
avoidanceRadius == 2500
avoidanceStrength == 400
maxFishSpeed == 400
maxFishForce == 4

---------------------------------------------------------------------------
(* Scalar arithmetic *)
Abs(a) == IF a < 0 THEN -a ELSE a

Sign(a) == IF a > 0 THEN 1 ELSE IF a < 0 THEN -1 ELSE 0

Min(a, b) == IF a < b THEN a ELSE b

Max(a, b) == IF a > b THEN a ELSE b

\* a / b for b > 0, rounded to nearest, half away from zero
Div(a, b) == Sign(a) * ((2 * Abs(a) + b) \div (2 * b))

RECURSIVE SqrtIter(_, _, _)
SqrtIter(n, lo, hi) ==
    IF lo >= hi THEN lo
    ELSE LET mid == (lo + hi + 1) \div 2
         IN  IF mid * mid <= n THEN SqrtIter(n, mid, hi)
                               ELSE SqrtIter(n, lo, mid - 1)

\* Math.sqrt, rounded down
Sqrt(n) == SqrtIter(n, 0, 46340)

---------------------------------------------------------------------------
(* THREE.Vector3 operations used by the simulation *)
Vec(a, b) == [x |-> a, y |-> b]

Zero == Vec(0, 0)

add(v, w) == Vec(v.x + w.x, v.y + w.y)

sub(v, w) == Vec(v.x - w.x, v.y - w.y)

\* s is a fixed-point scalar
multiplyScalar(v, s) == Vec(Div(v.x * s, Scale), Div(v.y * s, Scale))

\* s is a fixed-point scalar, s > 0
divideScalar(v, s) == Vec(Div(v.x * Scale, s), Div(v.y * Scale, s))

clampScalar(v, lo, hi) == Vec(Max(lo, Min(hi, v.x)), Max(lo, Min(hi, v.y)))

length(v) == Sqrt(v.x * v.x + v.y * v.y)

\* Vector3.normalize divides by (length() || 1): the zero vector stays zero
normalize(v) == IF length(v) = 0 THEN v ELSE divideScalar(v, length(v))

\* Distances beyond DistCap in a coordinate are reported as DistCap, which
\* is larger than every radius the distance is compared with.
distanceTo(p, q) ==
    IF Abs(p.x - q.x) > DistCap \/ Abs(p.y - q.y) > DistCap
    THEN DistCap
    ELSE length(sub(p, q))

---------------------------------------------------------------------------
(* The three steering forces.  Each scans the whole flock fl for the fish  *)
(* at index i; fishies.forEach visits the indices 1..Len(fl) in order.     *)

\* the test `dist > 0 && dist < radius` of the three scans
isNeighbor(dist, radius) == dist > 0 /\ dist < radius

\* variant: the scan uses cohesionRadius without the allowance for the fish's size
RECURSIVE cohesionScanNarrow(_, _, _)
cohesionScanNarrow(fl, i, k) ==
    IF k = 0 THEN [count |-> 0, sum |-> Zero]
    ELSE LET r == cohesionScanNarrow(fl, i, k - 1)
             dist == distanceTo(fl[i].position, fl[k].position)
         IN  IF dist > 0 /\ dist < cohesionRadius
             THEN [count |-> r.count + 1, sum |-> add(r.sum, fl[k].position)]
             ELSE r

\* variant: the scan omits `dist > 0`, so that a fish is its own neighbour
RECURSIVE cohesionScanSelf(_, _, _)
cohesionScanSelf(fl, i, k) ==
    IF k = 0 THEN [count |-> 0, sum |-> Zero]
    ELSE LET r == cohesionScanSelf(fl, i, k - 1)
             dist == distanceTo(fl[i].position, fl[k].position)
         IN  IF dist < cohesionRadius + (fishSize * 2)
             THEN [count |-> r.count + 1, sum |-> add(r.sum, fl[k].position)]
             ELSE r

\* cohesion(): count and positional sum over the first k fish
RECURSIVE cohesionScan(_, _, _)
cohesionScan(fl, i, k) ==
    IF k = 0 THEN [count |-> 0, sum |-> Zero]
    ELSE LET r == cohesionScan(fl, i, k - 1)
             dist == distanceTo(fl[i].position, fl[k].position)
         IN  IF isNeighbor(dist, cohesionRadius + (fishSize * 2))
             THEN [count |-> r.count + 1, sum |-> add(r.sum, fl[k].position)]
             ELSE r

\* variant: a zero direction is checked for and gives the zero force
cohesionGuarded(fl, i) ==
    LET r == cohesionScan(fl, i, Len(fl))
        mean == divideScalar(r.sum, r.count * Scale)
        direction == sub(mean, fl[i].position)
    IN  IF r.count > 0 /\ length(direction) > 0
        THEN clampScalar(sub(multiplyScalar(normalize(direction), maxFishSpeed), fl[i].velocity),
                         -maxFishForce, maxFishForce)
        ELSE Zero

cohesion(fl, i) ==
    LET r == cohesionScan(fl, i, Len(fl))
    IN  IF r.count > 0
        THEN LET mean == divideScalar(r.sum, r.count * Scale)
                 desired == multiplyScalar(normalize(sub(mean, fl[i].position)), maxFishSpeed)
                 steer == sub(desired, fl[i].velocity)
             IN  clampScalar(steer, -maxFishForce, maxFishForce)
        ELSE r.sum

\* variant: the difference is taken from the fish to its neighbour
RECURSIVE avoidScanToward(_, _, _)
avoidScanToward(fl, i, k) ==
    IF k = 0 THEN [count |-> 0, steer |-> Zero]
    ELSE LET r == avoidScanToward(fl, i, k - 1)
             dist == distanceTo(fl[i].position, fl[k].position)
         IN  IF isNeighbor(dist, avoidanceRadius)
             THEN LET diff == divideScalar(normalize(sub(fl[k].position, fl[i].position)), dist)
                  IN  [count |-> r.count + 1, steer |-> add(r.steer, diff)]
             ELSE r

\* avoid(): count and accumulated steering vector over the first k fish
RECURSIVE avoidScan(_, _, _)
avoidScan(fl, i, k) ==
    IF k = 0 THEN [count |-> 0, steer |-> Zero]
    ELSE LET r == avoidScan(fl, i, k - 1)
             dist == distanceTo(fl[i].position, fl[k].position)
         IN  IF isNeighbor(dist, avoidanceRadius)
             THEN LET diff == divideScalar(normalize(sub(fl[i].position, fl[k].position)), dist)
                  IN  [count |-> r.count + 1, steer |-> add(r.steer, diff)]
             ELSE r

avoid(fl, i) ==
    LET r == avoidScan(fl, i, Len(fl))
        steer == IF r.count > 0 THEN divideScalar(r.steer, r.count * Scale) ELSE r.steer
        mag == Sqrt(steer.x * steer.x + steer.y * steer.y)
    IN  IF mag > 0
        THEN clampScalar(sub(multiplyScalar(normalize(steer), maxFishSpeed), fl[i].velocity),
                         -maxFishForce, maxFishForce)
        ELSE steer

\* align(): count and velocity sum over the first k fish
RECURSIVE alignScan(_, _, _)
alignScan(fl, i, k) ==
    IF k = 0 THEN [count |-> 0, sum |-> Zero]
    ELSE LET r == alignScan(fl, i, k - 1)
             dist == distanceTo(fl[i].position, fl[k].position)
         IN  IF isNeighbor(dist, alignmentRadius)
             THEN [count |-> r.count + 1, sum |-> add(r.sum, fl[k].velocity)]
             ELSE r

align(fl, i) ==
    LET r == alignScan(fl, i, Len(fl))
    IN  IF r.count > 0
        THEN LET sum == multiplyScalar(normalize(divideScalar(r.sum, r.count * Scale)), maxFishSpeed)
                 steer == sub(sum, fl[i].velocity)
             IN  clampScalar(steer, -maxFishForce, maxFishForce)
        ELSE r.sum

\* what the three functions return for fish i of flock fl
forcesOf(fl, i) ==
    [cohesionForce |-> cohesion(fl, i),
     avoidanceForce |-> avoid(fl, i),
     alignmentForce |-> align(fl, i)]

---------------------------------------------------------------------------
(* render(): the body of fishies.forEach for one fish, then the whole pass *)

\* the forces scaled by their strengths and added to the acceleration
accumulate(acceleration, f) ==
    add(add(add(acceleration,
                multiplyScalar(f.cohesionForce, cohesionStrength)),
            multiplyScalar(f.avoidanceForce, avoidanceStrength)),
        multiplyScalar(f.alignmentForce, alignmentStrength))

\* variant: the velocity is not clamped
integrateVelocityNoClamp(velocity, acceleration) == add(velocity, acceleration)

\* fish.velocity.add(fish.acceleration); fish.velocity.clampScalar(...)
integrateVelocity(velocity, acceleration) ==
    clampScalar(add(velocity, acceleration), -maxFishSpeed, maxFishSpeed)

\* variant: the acceleration is not reset
resetAccelerationNone(acceleration) == acceleration

\* fish.acceleration.multiplyScalar(0)
resetAcceleration(acceleration) == multiplyScalar(acceleration, 0)

\* variant: a coordinate exactly on the bound is negated too
wrapInclusive(p) ==
    Vec(IF p.x >= boundaryWidth \/ p.x <= -boundaryWidth THEN p.x * (-1) ELSE p.x,
        IF p.y >= boundaryHeight \/ p.y <= -boundaryHeight THEN p.y * (-1) ELSE p.y)

\* variant: a coordinate beyond the bound is moved onto the opposite bound
wrapOntoBound(p) ==
    Vec(IF p.x > boundaryWidth THEN -boundaryWidth
        ELSE IF p.x < -boundaryWidth THEN boundaryWidth ELSE p.x,
        IF p.y > boundaryHeight THEN -boundaryHeight
        ELSE IF p.y < -boundaryHeight THEN boundaryHeight ELSE p.y)

\* "If the fish just crossed a boundary, move them to the opposite side."
wrap(p) ==
    Vec(IF p.x > boundaryWidth \/ p.x < -boundaryWidth THEN p.x * (-1) ELSE p.x,
        IF p.y > boundaryHeight \/ p.y < -boundaryHeight THEN p.y * (-1) ELSE p.y)

\* variant: the position advances by the velocity as it was before the clamp
updateFishClampLate(fish, f) ==
    LET acceleration == accumulate(fish.acceleration, f)
        velocity == integrateVelocity(fish.velocity, acceleration)
        position == add(fish.position, add(fish.velocity, acceleration))
    IN  [position |-> wrap(position),
         velocity |-> velocity,
         acceleration |-> resetAcceleration(acceleration)]

\* one iteration of the forEach in render(): fish i of flock fl, given its forces f
updateFish(fish, f) ==
    LET acceleration == accumulate(fish.acceleration, f)
        velocity == integrateVelocity(fish.velocity, acceleration)
        position == add(fish.position, velocity)
    IN  [position |-> wrap(position),
         velocity |-> velocity,
         acceleration |-> resetAcceleration(acceleration)]

\* The flock the force functions read while the step of fish k runs: they
\* read the global fishies, in which the fish before k are already updated.
\* snapshot is the flock as it was when render() began.
seenBySnapshot(snapshot, current, k) == snapshot

seenBy(snapshot, current, k) == current

\* the pass over the first k fish: the flock and the forces computed so far
RECURSIVE forEachFish(_, _)
forEachFish(fl, k) ==
    IF k = 0 THEN [fishies |-> fl, forces |-> << >>]
    ELSE LET r == forEachFish(fl, k - 1)
             f == forcesOf(seenBy(fl, r.fishies, k), k)
         IN  [fishies |-> [r.fishies EXCEPT ![k] = updateFish(r.fishies[k], f)],
              forces |-> Append(r.forces, f)]

---------------------------------------------------------------------------
(* init(): newFish() gives each fish an integer position strictly inside   *)
(* the boundary, a unit velocity and zero acceleration.                    *)

newFish(px, py, vx, vy) ==
    [position |-> Vec(px * Scale, py * Scale),
     velocity |-> Vec(vx, vy),
     acceleration |-> Zero]

\* outcomes of newFish() the model starts from: two fish heading for the
\* left and the right edge, and four fish close together around the origin
Starts ==
    { newFish(-635, 1, -80, 60),
      newFish(637, 23, 100, 0),
      newFish(0, 0, 0, 100),
      newFish(10, 0, 100, 0),
      newFish(-10, 0, -100, 0),
      newFish(0, 10, 60, 80) }

\* a flock of n fish, no two created alike
Flocks(n) == {fl \in [1..n -> Starts] : \A i, j \in 1..n : i # j => fl[i] # fl[j]}

Init ==
    /\ \E n \in 1..MaxNumFish : fishies \in Flocks(n)
    /\ prevFishies = fishies
    /\ forces = << >>
    /\ ticks = 0

\* animate(): one frame
Render ==
    /\ ticks < MaxTicks
    /\ LET r == forEachFish(fishies, Len(fishies))
       IN  /\ fishies' = r.fishies
           /\ forces' = r.forces
    /\ prevFishies' = fishies
    /\ ticks' = ticks + 1

Next == Render

Spec == Init /\ [][Next]_vars

---------------------------------------------------------------------------
(* What the properties below speak of *)

Fish == 1..Len(fishies)

\* a frame has been rendered: prevFishies and forces describe it
Acted == ticks > 0

\* the flock as the step of fish i found it in the last frame: the fish
\* before i after their step, fish i and the fish after it before theirs
Seen(i) == [j \in Fish |-> IF j < i THEN fishies[j] ELSE prevFishies[j]]

\* the acceleration the recorded forces of fish i add up to
Acceleration(i) == accumulate(Zero, forces[i])

\* the position of fish i after position.add(velocity), before the wrap
Integrated(i) == add(prevFishies[i].position, fishies[i].velocity)

InsideX(p) == Abs(p.x) <= boundaryWidth

InsideY(p) == Abs(p.y) <= boundaryHeight

---------------------------------------------------------------------------
\* C1 (as stated): after every tick every agent has |position.x| <=
\* boundaryWidth and |position.y| <= boundaryHeight.
C1_InsideAfterTick ==
    \A i \in Fish : InsideX(fishies[i].position) /\ InsideY(fishies[i].position)

\* C1 (amended): after every tick a coordinate is within its bound exactly
\* when integration left it there; a coordinate that integration carried
\* beyond the bound ends the tick beyond the opposite bound, at the same
\* distance from the origin.
C1_InsideIffIntegratedInside ==
    Acted =>
        \A i \in Fish :
            /\ InsideX(fishies[i].position) <=> InsideX(Integrated(i))
            /\ InsideY(fishies[i].position) <=> InsideY(Integrated(i))
            /\ Abs(fishies[i].position.x) = Abs(Integrated(i).x)
            /\ Abs(fishies[i].position.y) = Abs(Integrated(i).y)

\* a fish that integration carried beyond the bound and that ends the tick outside
C1_Witness ==
    /\ Acted
    /\ \E i \in Fish : ~InsideX(Integrated(i)) /\ ~InsideX(fishies[i].position)

---------------------------------------------------------------------------
\* C2: at creation and after every tick every agent has |velocity.x| <=
\* maxSpeed and |velocity.y| <= maxSpeed.
C2_VelocityClamped ==
    \A i \in Fish :
        /\ Abs(fishies[i].velocity.x) <= maxFishSpeed
        /\ Abs(fishies[i].velocity.y) <= maxFishSpeed

\* a tick in which velocity plus acceleration exceeded the bound and was clamped
C2_Witness ==
    /\ Acted
    /\ \E i \in Fish :
          LET u == add(prevFishies[i].velocity, Acceleration(i))
          IN  /\ Abs(u.x) > maxFishSpeed \/ Abs(u.y) > maxFishSpeed
              /\ fishies[i].velocity = clampScalar(u, -maxFishSpeed, maxFishSpeed)

---------------------------------------------------------------------------
\* C4: the wrap negates a coordinate whose magnitude after integration
\* exceeds its bound, leaves a coordinate within or exactly on the bound
\* unchanged, and leaves the velocity as integration computed it.
C4_WrapIsReflection ==
    Acted =>
        \A i \in Fish :
            LET p == Integrated(i)
            IN  /\ fishies[i].position.x = IF Abs(p.x) > boundaryWidth THEN -p.x ELSE p.x
                /\ fishies[i].position.y = IF Abs(p.y) > boundaryHeight THEN -p.y ELSE p.y
                /\ fishies[i].velocity =
                       clampScalar(add(prevFishies[i].velocity, Acceleration(i)),
                                   -maxFishSpeed, maxFishSpeed)

\* a moving fish that integration carried beyond the x bound and the wrap negated
C4_Witness ==
    /\ Acted
    /\ \E i \in Fish :
          /\ Abs(Integrated(i).x) > boundaryWidth
          /\ fishies[i].position.x = -Integrated(i).x
          /\ fishies[i].velocity.x # 0

\* a fish whose integrated coordinate is exactly the bound and stays there
C4_OnBound ==
    /\ Acted
    /\ \E i \in Fish :
          /\ Integrated(i).x = boundaryWidth
          /\ fishies[i].position.x = boundaryWidth

---------------------------------------------------------------------------
\* C5: every agent's acceleration is the zero vector at creation and after
\* every tick, whatever forces the tick added to it.
C5_AccelerationZero ==
    \A i \in Fish : fishies[i].acceleration = Zero

\* a tick that added a non-zero force to a fish's acceleration
C5_Witness ==
    /\ Acted
    /\ \E i \in Fish : Acceleration(i) # Zero /\ fishies[i].acceleration = Zero

---------------------------------------------------------------------------
\* C10 (as stated): after every tick every agent has |position.x| <=
\* boundaryWidth + maxSpeed and |position.y| <= boundaryHeight + maxSpeed.
C10_OvershootWithinOneStep ==
    \A i \in Fish :
        /\ Abs(fishies[i].position.x) <= boundaryWidth + maxFishSpeed
        /\ Abs(fishies[i].position.y) <= boundaryHeight + maxFishSpeed

\* C10 (amended): in one tick a coordinate's magnitude grows by at most
\* maxSpeed, so an agent inside the rectangle before a tick is at most one
\* maximum step outside it afterwards; an agent already outside can be
\* reflected again and move further out.
C10_OvershootGrowsByOneStep ==
    Acted =>
        \A i \in Fish :
            /\ Abs(fishies[i].position.x) <= Abs(prevFishies[i].position.x) + maxFishSpeed
            /\ Abs(fishies[i].position.y) <= Abs(prevFishies[i].position.y) + maxFishSpeed
            /\ InsideX(prevFishies[i].position) =>
                   Abs(fishies[i].position.x) <= boundaryWidth + maxFishSpeed
            /\ InsideY(prevFishies[i].position) =>
                   Abs(fishies[i].position.y) <= boundaryHeight + maxFishSpeed

\* a fish outside the rectangle before the tick that is reflected again, further out
C10_Witness ==
    /\ Acted
    /\ \E i \in Fish :
          /\ ~InsideX(prevFishies[i].position)
          /\ Abs(fishies[i].position.x) > Abs(prevFishies[i].position.x)

---------------------------------------------------------------------------
(* Neighbourhoods and averages, stated over sets of fish *)

\* the fish of fl other than i, not coincident with it, closer than radius
Neighbours(fl, i, radius) ==
    {j \in DOMAIN fl :
        /\ j # i
        /\ fl[j].position # fl[i].position
        /\ distanceTo(fl[i].position, fl[j].position) < radius}

\* the sum of the vectors F[j], j in S
RECURSIVE SumVec(_, _)
SumVec(F, S) ==
    IF S = {} THEN Zero
    ELSE LET j == CHOOSE k \in S : TRUE
         IN  add(F[j], SumVec(F, S \ {j}))

\* the arithmetic mean of the vectors F[j], j in S, S not empty
MeanVec(F, S) == divideScalar(SumVec(F, S), Cardinality(S) * Scale)

CohesionSet(fl, i) == Neighbours(fl, i, cohesionRadius + 2 * fishSize)

\* the cohesion target: the mean position of the cohesion neighbours
CohesionTarget(fl, i) ==
    MeanVec([j \in DOMAIN fl |-> fl[j].position], CohesionSet(fl, i))

AlignmentSet(fl, i) == Neighbours(fl, i, alignmentRadius)

MeanVelocity(fl, i) ==
    MeanVec([j \in DOMAIN fl |-> fl[j].velocity], AlignmentSet(fl, i))

AvoidanceSet(fl, i) == Neighbours(fl, i, avoidanceRadius)

\* the averaged sum of normalize(a.position - o.position) / distance
MeanRepulsion(fl, i) ==
    MeanVec([j \in DOMAIN fl |->
                divideScalar(normalize(sub(fl[i].position, fl[j].position)),
                             Max(1, distanceTo(fl[i].position, fl[j].position)))],
            AvoidanceSet(fl, i))

\* clamp(maxSpeed * normalize(direction) - velocity, +/-maxForce)
Steer(direction, velocity) ==
    clampScalar(sub(multiplyScalar(normalize(direction), maxFishSpeed), velocity),
                -maxFishForce, maxFishForce)

---------------------------------------------------------------------------
\* C3 (as stated): within one tick the forces of every agent are computed
\* from the flock as it was before the tick.
C3_ForcesFromSnapshot ==
    Acted => \A i \in Fish : forces[i] = forcesOf(prevFishies, i)

\* C3 (amended): within one tick the three forces of an agent are computed
\* from one and the same flock state, in which the agents before it in the
\* iteration order already have their post-tick position and velocity and
\* the agent itself and those after it still have their pre-tick values; so
\* the post-tick flock depends on the order in which agents are processed.
C3_ForcesFromPartlyUpdatedFlock ==
    Acted => \A i \in Fish : forces[i] = forcesOf(Seen(i), i)

\* a fish whose forces differ from those the pre-tick flock would have given
C3_Witness ==
    /\ Acted
    /\ \E i \in Fish :
          /\ forces[i] = forcesOf(Seen(i), i)
          /\ forces[i] # forcesOf(prevFishies, i)

---------------------------------------------------------------------------
\* C6: an agent that has no other agent at a distance d, 0 < d < radius, for
\* any of the three radii when its step runs gets three zero forces and
\* keeps its velocity; in a flock of one agent the velocity never changes.
C6_NoNeighbourNoForce ==
    Acted =>
        \A i \in Fish :
            (/\ CohesionSet(Seen(i), i) = {}
             /\ AvoidanceSet(Seen(i), i) = {}
             /\ AlignmentSet(Seen(i), i) = {})
            => /\ forces[i].cohesionForce = Zero
               /\ forces[i].avoidanceForce = Zero
               /\ forces[i].alignmentForce = Zero
               /\ fishies[i].velocity = prevFishies[i].velocity

\* a fish of a larger flock, out of reach of the others, that moved on unchanged
C6_Witness ==
    /\ Acted
    /\ Len(fishies) > 1
    /\ \E i \in Fish :
          /\ CohesionSet(Seen(i), i) = {}
          /\ fishies[i].velocity = prevFishies[i].velocity
          /\ fishies[i].velocity # Zero
          /\ fishies[i].position # prevFishies[i].position

\* a flock of one fish being reflected at the boundary, velocity unchanged
C6_SingleReflected ==
    /\ Acted
    /\ Len(fishies) = 1
    /\ Abs(Integrated(1).x) > boundaryWidth
    /\ fishies[1].velocity = prevFishies[1].velocity

---------------------------------------------------------------------------
\* C8 (as stated): a vector is normalized only when its magnitude is
\* positive, so a zero direction gives the zero force in cohesion,
\* alignment and avoidance alike.
C8_ZeroDirectionZeroForce ==
    Acted =>
        \A i \in Fish :
            LET fl == Seen(i)
            IN  /\ (CohesionSet(fl, i) # {} /\ CohesionTarget(fl, i) = fl[i].position)
                       => forces[i].cohesionForce = Zero
                /\ (AlignmentSet(fl, i) # {} /\ MeanVelocity(fl, i) = Zero)
                       => forces[i].alignmentForce = Zero
                /\ (AvoidanceSet(fl, i) # {} /\ MeanRepulsion(fl, i) = Zero)
                       => forces[i].avoidanceForce = Zero

\* C8 (amended): only avoidance checks the magnitude before it normalizes,
\* and returns the zero force for a zero accumulated vector.  Cohesion and
\* alignment normalize whenever the agent has a neighbour; normalizing the
\* zero vector leaves it zero, so a zero direction gives the force
\* clamp(-velocity, +/-maxForce), which is zero only for a resting agent.
C8_OnlyAvoidanceGuarded ==
    Acted =>
        \A i \in Fish :
            LET fl == Seen(i)
                brake == clampScalar(sub(Zero, fl[i].velocity), -maxFishForce, maxFishForce)
            IN  /\ (CohesionSet(fl, i) # {} /\ CohesionTarget(fl, i) = fl[i].position)
                       => forces[i].cohesionForce = brake
                /\ (AlignmentSet(fl, i) # {} /\ MeanVelocity(fl, i) = Zero)
                       => forces[i].alignmentForce = brake
                /\ (AvoidanceSet(fl, i) # {} /\ MeanRepulsion(fl, i) = Zero)
                       => forces[i].avoidanceForce = Zero

\* a moving fish midway between its cohesion neighbours, braked by cohesion
C8_Witness ==
    /\ Acted
    /\ \E i \in Fish :
          /\ CohesionSet(Seen(i), i) # {}
          /\ CohesionTarget(Seen(i), i) = Seen(i)[i].position
          /\ forces[i].cohesionForce # Zero

\* a moving fish whose alignment neighbours' velocities cancel
C8_AlignmentCancels ==
    /\ Acted
    /\ \E i \in Fish :
          /\ AlignmentSet(Seen(i), i) # {}
          /\ MeanVelocity(Seen(i), i) = Zero
          /\ forces[i].alignmentForce # Zero

\* a fish whose avoidance neighbours' repulsions cancel
C8_AvoidanceCancels ==
    /\ Acted
    /\ \E i \in Fish :
          /\ AvoidanceSet(Seen(i), i) # {}
          /\ MeanRepulsion(Seen(i), i) = Zero
          /\ forces[i].avoidanceForce = Zero

---------------------------------------------------------------------------
\* C9: the cohesion target of an agent is the arithmetic mean of the
\* positions of exactly the agents o with 0 < distance < cohesionRadius +
\* 2*fishSize; the cohesion force is clamp(maxSpeed * normalize(target -
\* position) - velocity, +/-maxForce), and zero without such an agent; for
\* positions (0,0), (10,0), (0,10) the target of the agent at the origin is (5,5).
C9_CohesionTowardsMean ==
    Acted =>
        \A i \in Fish :
            LET fl == Seen(i)
            IN  /\ forces[i].cohesionForce =
                       IF CohesionSet(fl, i) = {} THEN Zero
                       ELSE Steer(sub(CohesionTarget(fl, i), fl[i].position), fl[i].velocity)
                /\ (/\ Len(fl) = 3
                    /\ fl[i].position = Zero
                    /\ {fl[j].position : j \in DOMAIN fl \ {i}}
                           = {Vec(10 * Scale, 0), Vec(0, 10 * Scale)})
                   => /\ CohesionSet(fl, i) = DOMAIN fl \ {i}
                      /\ CohesionTarget(fl, i) = Vec(5 * Scale, 5 * Scale)

\* the flock at (0,0), (10,0), (0,10): the fish at the origin steers towards (5,5)
C9_Witness ==
    /\ ticks = 1
    /\ Len(fishies) = 3
    /\ prevFishies[1].position = Zero
    /\ prevFishies[2].position = Vec(10 * Scale, 0)
    /\ prevFishies[3].position = Vec(0, 10 * Scale)
    /\ forces[1].cohesionForce =
           Steer(Vec(5 * Scale, 5 * Scale), prevFishies[1].velocity)
    /\ forces[1].cohesionForce # Zero

---------------------------------------------------------------------------
(* The two-agent scenario: avoid() and render() applied to a flock that is *)
(* placed by hand rather than created by init(): two resting fish,         *)
(* avoidanceRadius/2 apart, in each of a set of directions.                *)

\* unit vectors with exact coordinates: along the axes and oblique
PairDirections ==
    {Vec(sx * d[1], sy * d[2]) :
        sx \in {-1, 1}, sy \in {-1, 1},
        d \in {<<100, 0>>, <<0, 100>>, <<60, 80>>, <<80, 60>>, <<28, 96>>, <<96, 28>>}}

PairBases == {Vec(0, 0), Vec(-300 * Scale, 100 * Scale), Vec(500 * Scale, -200 * Scale)}

resting(p) == [position |-> p, velocity |-> Zero, acceleration |-> Zero]

InitPair ==
    /\ \E base \in PairBases, dir \in PairDirections :
          fishies = << resting(base),
                       resting(add(base, multiplyScalar(dir, avoidanceRadius \div 2))) >>
    /\ prevFishies = fishies
    /\ forces = << >>
    /\ ticks = 0

SpecPair == InitPair /\ [][Next]_vars

\* the last frame started from two resting fish avoidanceRadius/2 apart
PairPlaced ==
    /\ Acted
    /\ Len(prevFishies) = 2
    /\ prevFishies[1].velocity = Zero
    /\ prevFishies[2].velocity = Zero
    /\ distanceTo(prevFishies[1].position, prevFishies[2].position) = avoidanceRadius \div 2

\* from the other fish to fish i, as placed
AwayFromOther(i) == sub(prevFishies[i].position, prevFishies[3 - i].position)

\* the avoidance force of fish i after avoidanceForce.multiplyScalar(avoidanceStrength)
ScaledAvoidance(i) == multiplyScalar(forces[i].avoidanceForce, avoidanceStrength)

\* maxForce * avoidanceStrength
MaxAvoidance == Div(maxFishForce * avoidanceStrength, Scale)

---------------------------------------------------------------------------
\* C7 (as stated): for two resting agents avoidanceRadius/2 apart in any
\* direction, the scaled avoidance force of each points away from the other
\* along the line connecting them, with Euclidean magnitude <= maxForce *
\* avoidanceStrength.
C7_AvoidanceAlongLine ==
    PairPlaced =>
        \A i \in Fish :
            LET d == AwayFromOther(i)
                F == ScaledAvoidance(i)
            IN  /\ F.x * d.y = F.y * d.x
                /\ F.x * d.x + F.y * d.y > 0
                /\ F.x * F.x + F.y * F.y <= MaxAvoidance * MaxAvoidance

\* C7 (amended): for two resting agents avoidanceRadius/2 apart in any
\* direction, each component of the scaled avoidance force of each agent has
\* magnitude <= maxForce * avoidanceStrength and is zero or has the sign of
\* that component of (own position - other position), and the force is not
\* zero: it points away from the other agent.  It lies along the connecting
\* line, with Euclidean magnitude <= maxForce * avoidanceStrength, when that
\* line is parallel to an axis; in any other direction the componentwise
\* clamp turns it towards the diagonal and its Euclidean magnitude reaches
\* sqrt(2) * maxForce * avoidanceStrength at most.
C7_AvoidanceAwayComponentwise ==
    PairPlaced =>
        \A i \in Fish :
            LET d == AwayFromOther(i)
                F == ScaledAvoidance(i)
            IN  /\ Abs(F.x) <= MaxAvoidance /\ Abs(F.y) <= MaxAvoidance
                /\ F.x * d.x >= 0 /\ F.y * d.y >= 0
                /\ (d.x = 0 => F.x = 0) /\ (d.y = 0 => F.y = 0)
                /\ F.x * d.x + F.y * d.y > 0
                /\ F.x * F.x + F.y * F.y <= 2 * MaxAvoidance * MaxAvoidance
                /\ (d.x = 0 \/ d.y = 0) =>
                       /\ F.x * d.y = F.y * d.x
                       /\ F.x * F.x + F.y * F.y <= MaxAvoidance * MaxAvoidance

\* an oblique placement: both forces saturated in both components, off the line
C7_Witness ==
    /\ PairPlaced
    /\ \A i \in Fish :
          /\ Abs(ScaledAvoidance(i).x) = MaxAvoidance
          /\ Abs(ScaledAvoidance(i).y) = MaxAvoidance
          /\ Abs(AwayFromOther(i).x) # Abs(AwayFromOther(i).y)

\* a placement along an axis: both forces along the line, of magnitude maxForce * avoidanceStrength
C7_AxisParallel ==
    /\ PairPlaced
    /\ AwayFromOther(1).y = 0
    /\ \A i \in Fish :
          /\ ScaledAvoidance(i).y = 0
          /\ ScaledAvoidance(i).x = Sign(AwayFromOther(i).x) * MaxAvoidance

====
